---- MODULE Spec2Model ----
(***************************************************************************)
(* Model of the signet-cli `proxy` command (cmd/proxy.go): flag            *)
(* validation, mountebank config generation, the supervised mountebank     *)
(* child process, the os.Interrupt channel and the goroutine that runs     *)
(* utils.CreatePact for every signal received from that channel; and of    *)
(* the `test` command (cmd/verify_provider.go), which runs dredd and       *)
(* publishes the verification result.                                      *)
(***************************************************************************)
EXTENDS Integers, Sequences, FiniteSets, TLC

(* ---------- bounds of the model ---------- *)
MaxPortLen == 2      \* longest --port string explored
MaxSignals == 3      \* os.Interrupt deliveries explored in one run
MaxRecords == 1      \* records mountebank captures during one modelled run
MaxCapture == 4      \* longest capture directory handed to a synthesis pass

(* ---------- values ---------- *)
Digits == {"0", "1"}
Chars == Digits \cup {"-", "+", "a"}
PortStrings == UNION {[1..k -> Chars] : k \in 0..MaxPortLen}
FlagStrings == {<<>>, <<"x">>}

NilErr == <<>>       \* a nil error; non-nil errors are sequences of message parts
ChildFailures == {"exit status 1", "signal: killed"}
StartFailures == {"exec: npx: executable file not found in $PATH"}

VARIABLES
    path, port, target, name, providerName,  \* the flag-bound package globals
    pc,            \* position of RunE (the main goroutine)
    retErr,        \* the error RunE returned (NilErr while running / on success)
    procState,     \* "running" | "returned" | "fatal" (log.Fatal) | "killed" (default SIGINT)
    exitCode,      \* process exit status, -1 while running
    configFile,    \* contents of config.ejs: <<>> when never written, else <<ProxyConfig>>
    configWrites,  \* number of osWriteFile calls that succeeded
    child,         \* mbCmd: "notstarted" | "startfailed" | "running" | "exited"
    childErr,      \* what mbCmd.Wait() yields once the child has exited
    waited,        \* mbCmd.Wait() has been called
    handlerRegistered,  \* signal.Notify(c, os.Interrupt) has been executed
    c,             \* number of signals buffered in the channel c
    gpc,           \* position of the signal goroutine: "none" | "range" | "pass"
    inFlight,      \* CreatePact calls currently executing
    lastPass,      \* outcome of the latest completed pass: "none" | "wrote" | "empty" | "err"
    sigDelivered,  \* os.Interrupt signals delivered to the process
    sigNotified,   \* of those, delivered after signal.Notify
    sigDropped,    \* of those, discarded because the channel was full
    passesStarted, \* CreatePact calls begun
    passesDone,    \* CreatePact calls that returned without error
    store,         \* the records in stubsDir, in capture order (written by mountebank)
    snapshot,      \* the records the in-flight CreatePact call read from stubsDir
    outFile,       \* the file at `path`: [st: "absent" | "partial" | "complete", doc]
    outWrites,     \* completed writes of the file at `path`
    prevWrite,     \* the latest completed write: the records it was made from and its document
    lastErr,       \* the error the latest failed CreatePact call returned
    brokerURL, version, providerURL,  \* flag-bound globals of the test command
    dreddErr,      \* err of shcmd2.CombinedOutput()
    dreddOut,      \* its combined output, as a sequence of lines
    printed,       \* what the test command printed, in order
    published,     \* calls of utils.PublishProvider
    BrokerBaseURL, Version, environment, delete,  \* flag-bound globals of update-deployment
    requests       \* the calls of UpdateDeploymentWithBroker, in order: [url, jsonData]

flagVars == <<path, port, target, name, providerName>>
mainVars == <<pc, retErr, procState, exitCode>>
cfgVars == <<configFile, configWrites>>
childVars == <<child, childErr>>
sigVars == <<handlerRegistered, c, sigDelivered, sigNotified, sigDropped>>
goVars == <<gpc, inFlight, lastPass, passesStarted, passesDone>>
pactVars == <<store, snapshot, outFile, outWrites, prevWrite, lastErr>>
testVars == <<brokerURL, version, providerURL, dreddErr, dreddOut, printed, published>>
deployVars == <<BrokerBaseURL, Version, environment, delete, requests>>
proxyVars == <<cfgVars, childVars, waited, sigVars, goVars, pactVars>>
vars == <<flagVars, mainVars, cfgVars, childVars, waited, sigVars, goVars, pactVars, testVars,
          deployVars>>

(* ---------- pure functions ---------- *)

DigitVal(ch) == IF ch = "0" THEN 0 ELSE IF ch = "1" THEN 1 ELSE -1

\* variant: bytes that are not digits are skipped instead of rejected
RECURSIVE ParseDigits_lenient(_, _)
ParseDigits_lenient(s, n) ==
    IF s = <<>> THEN n
    ELSE IF DigitVal(Head(s)) < 0 THEN ParseDigits_lenient(Tail(s), n)
    ELSE ParseDigits_lenient(Tail(s), n * 10 + DigitVal(Head(s)))

\* the digit loop of strconv.Atoi's fast path: n = n*10 + digit, -1 on a bad byte
RECURSIVE ParseDigits(_, _)
ParseDigits(s, n) ==
    IF s = <<>> THEN n
    ELSE IF DigitVal(Head(s)) < 0 THEN -1
    ELSE ParseDigits(Tail(s), n * 10 + DigitVal(Head(s)))

\* strconv.Atoi(s) as [n, err]; err = TRUE is a *NumError (invalid syntax)
Atoi(s) ==
    IF Len(s) = 0 THEN [n |-> 0, err |-> TRUE]
    ELSE LET signed == Head(s) \in {"-", "+"}
             body == IF signed THEN Tail(s) ELSE s
         IN IF Len(body) < 1 THEN [n |-> 0, err |-> TRUE]
            ELSE LET v == ParseDigits(body, 0)
                 IN IF v < 0 THEN [n |-> 0, err |-> TRUE]
                    ELSE [n |-> IF Head(s) = "-" THEN -v ELSE v, err |-> FALSE]

\* variant: the port is checked before the path
validateProxyFlags_portFirst(p, o, t, n, m) ==
    IF Len(o) = 0 THEN <<"No --port was provided. This is a required flag.">>
    ELSE IF Len(p) = 0 THEN <<"No --path was provided. This is a required flag.">>
    ELSE IF Len(t) = 0 THEN <<"No --target was provided. This is a required flag.">>
    ELSE IF Len(n) = 0 THEN <<"No --name was provided. This is a required flag.">>
    ELSE IF Len(m) = 0 THEN <<"No --provider-name was provided. This is a required flag.">>
    ELSE NilErr

\* validateProxyFlags: the first empty flag, in source order, is reported
validateProxyFlags(p, o, t, n, m) ==
    IF Len(p) = 0 THEN <<"No --path was provided. This is a required flag.">>
    ELSE IF Len(o) = 0 THEN <<"No --port was provided. This is a required flag.">>
    ELSE IF Len(t) = 0 THEN <<"No --target was provided. This is a required flag.">>
    ELSE IF Len(n) = 0 THEN <<"No --name was provided. This is a required flag.">>
    ELSE IF Len(m) = 0 THEN <<"No --provider-name was provided. This is a required flag.">>
    ELSE NilErr

\* the ProxyConfig literal built by setupMbConfig
ProxyConfig(portInt, to) ==
    [Port |-> portInt, Name |-> "signet-proxy", Protocol |-> "http",
     Stubs |-> <<[Responses |-> <<[Proxy |-> [To |-> to, Mode |-> "proxyOnce"]]>>]>>]

(* ---------- utils.CreatePact: reader, synthesizer, writer ---------- *)

\* captured exchanges; RecBad is a record that cannot be decoded (caught mid-write)
RecA == [ok |-> TRUE, method |-> "GET", path |-> "/a", status |-> 200]
RecB == [ok |-> TRUE, method |-> "GET", path |-> "/b", status |-> 200]
RecC == [ok |-> TRUE, method |-> "POST", path |-> "/a", status |-> 201]
RecBad == [ok |-> FALSE, method |-> "", path |-> "", status |-> 0]
Records == {RecA, RecB, RecC, RecBad}
LiveRecords == {RecA, RecBad}   \* what mountebank captures during a modelled run
CaptureSeqs(n) == UNION {[1..k -> Records] : k \in 0..n}

NoDoc == [consumer |-> <<>>, provider |-> <<>>, interactions |-> <<>>, metadata |-> 0]
NoFile == [st |-> "absent", doc |-> NoDoc]
Faults == {"none", "read", "write"}   \* what the filesystem does to one pass
ReadError == <<"ReadError">>
WriteError == <<"WriteError">>
MalformedRecord == <<"MalformedRecord">>

\* the structural key two identical exchanges share
Key(r) == <<r.method, r.path, r.status>>

\* the contract entry of one record; the description is method + path
Interaction(r) ==
    [description |-> <<r.method, r.path>>,
     request |-> [method |-> r.method, path |-> r.path],
     response |-> [status |-> r.status]]

\* variant: the first malformed record aborts the read
ReadStore_abort(dir) ==
    IF \E i \in 1..Len(dir) : ~dir[i].ok
    THEN [recs |-> <<>>, err |-> MalformedRecord]
    ELSE [recs |-> dir, err |-> NilErr]

\* Interaction Store Reader: malformed records are skipped, never an error;
\* a missing or empty directory is the empty sequence
ReadStore(dir) ==
    [recs |-> SelectSeq(dir, LAMBDA r : r.ok), err |-> NilErr]

\* variant: no key is remembered, every record is emitted
RECURSIVE SynthLoop_noDedup(_, _, _)
SynthLoop_noDedup(rs, seen, out) ==
    IF rs = <<>> THEN out
    ELSE SynthLoop_noDedup(Tail(rs), seen, Append(out, Interaction(Head(rs))))

\* Contract Synthesizer loop: emit a record's interaction the first time its
\* key is seen, skip it otherwise
RECURSIVE SynthLoop(_, _, _)
SynthLoop(rs, seen, out) ==
    IF rs = <<>> THEN out
    ELSE IF Key(Head(rs)) \in seen THEN SynthLoop(Tail(rs), seen, out)
    ELSE SynthLoop(Tail(rs), seen \cup {Key(Head(rs))},
                   Append(out, Interaction(Head(rs))))

\* variant: the pass number leaks into the descriptions
Synthesize_stamped(rs, consumer, provider, stamp) ==
    [consumer |-> [name |-> consumer], provider |-> [name |-> provider],
     interactions |-> [i \in 1..Len(SynthLoop(rs, {}, <<>>)) |->
                         [SynthLoop(rs, {}, <<>>)[i] EXCEPT !.description = <<"pass", stamp>>]],
     metadata |-> stamp]

\* the Contract document; metadata carries the time of the pass
Synthesize(rs, consumer, provider, stamp) ==
    [consumer |-> [name |-> consumer], provider |-> [name |-> provider],
     interactions |-> SynthLoop(rs, {}, <<>>),
     metadata |-> stamp]

\* a document without its timestamp metadata
Body(doc) == [consumer |-> doc.consumer, provider |-> doc.provider,
              interactions |-> doc.interactions]

\* utils.CreatePact(stubsDir, path, name, providerName) as
\* [err, ok, doc]: ok says whether interactions were present and written
CreatePact(dir, consumer, provider, stamp, fault) ==
    IF fault = "read" THEN [err |-> ReadError, ok |-> FALSE, doc |-> NoDoc]
    ELSE LET rd == ReadStore(dir)
         IN IF rd.err # NilErr THEN [err |-> rd.err, ok |-> FALSE, doc |-> NoDoc]
            ELSE LET doc == Synthesize(rd.recs, consumer, provider, stamp)
                 IN IF doc.interactions = <<>>
                    THEN [err |-> NilErr, ok |-> FALSE, doc |-> doc]
                    ELSE IF fault = "write"
                    THEN [err |-> WriteError, ok |-> FALSE, doc |-> doc]
                    ELSE [err |-> NilErr, ok |-> TRUE, doc |-> doc]

\* exit status of the process when RunE returns err
ExitCodeOfReturn(err) == IF err = NilErr THEN 0 ELSE 1

\* `return err` from RunE: the process ends, and with it the signal goroutine
Return(err) ==
    /\ pc' = "returned"
    /\ retErr' = err
    /\ procState' = "returned"
    /\ exitCode' = ExitCodeOfReturn(err)

Alive == procState = "running"

(* ---------- initial state ---------- *)
Init ==
    /\ path \in FlagStrings
    /\ port \in PortStrings
    /\ target \in FlagStrings
    /\ name \in FlagStrings
    /\ providerName \in FlagStrings
    /\ pc = "validate"
    /\ retErr = NilErr
    /\ procState = "running"
    /\ exitCode = -1
    /\ configFile = <<>>
    /\ configWrites = 0
    /\ child = "notstarted"
    /\ childErr = NilErr
    /\ waited = FALSE
    /\ handlerRegistered = FALSE
    /\ c = 0
    /\ gpc = "none"
    /\ inFlight = 0
    /\ lastPass = "none"
    /\ sigDelivered = 0
    /\ sigNotified = 0
    /\ sigDropped = 0
    /\ passesStarted = 0
    /\ passesDone = 0
    /\ store = <<>>
    /\ snapshot = <<>>
    /\ outFile = NoFile
    /\ outWrites = 0
    /\ prevWrite = [src |-> <<>>, doc |-> NoDoc]
    /\ lastErr = NilErr
    /\ brokerURL = <<>> /\ version = <<>> /\ providerURL = <<>>
    /\ dreddErr = NilErr
    /\ dreddOut = <<>>
    /\ printed = <<>>
    /\ published = 0
    /\ BrokerBaseURL = <<>> /\ Version = <<>> /\ environment = <<>>
    /\ delete = FALSE /\ requests = <<>>

(* ---------- RunE, the main goroutine ---------- *)

\* lines 42-51: read the flags and validate them
ValidateFlags ==
    /\ Alive /\ pc = "validate"
    /\ LET err == validateProxyFlags(path, port, target, name, providerName)
       IN IF err # NilErr THEN Return(err)
          ELSE /\ pc' = "pkgroot"
               /\ UNCHANGED <<retErr, procState, exitCode>>
    /\ UNCHANGED <<flagVars, deployVars, pactVars, testVars, cfgVars, childVars, waited, sigVars, goVars>>

\* lines 53-60: locate the npm package root (may fail)
GetNpmPkgRoot ==
    /\ Alive /\ pc = "pkgroot"
    /\ \E ok \in BOOLEAN :
          IF ok THEN /\ pc' = "setup"
                     /\ UNCHANGED <<retErr, procState, exitCode>>
          ELSE Return(<<"npm root failed">>)
    /\ UNCHANGED <<flagVars, deployVars, pactVars, testVars, cfgVars, childVars, waited, sigVars, goVars>>

\* variant: a failed osWriteFile is not noticed and RunE goes on
SetupMbConfig_skipWrite ==
    /\ Alive /\ pc = "setup"
    /\ LET a == Atoi(port)
       IN IF a.err
          THEN /\ Return(<<"strconv.Atoi: parsing port: invalid syntax">>)
               /\ UNCHANGED cfgVars
          ELSE \E writeOk \in BOOLEAN :
                 /\ IF writeOk
                    THEN /\ configFile' = <<ProxyConfig(a.n, target)>>
                         /\ configWrites' = configWrites + 1
                    ELSE UNCHANGED cfgVars
                 /\ pc' = "start"
                 /\ UNCHANGED <<retErr, procState, exitCode>>
    /\ UNCHANGED <<flagVars, deployVars, pactVars, testVars, childVars, waited, sigVars, goVars>>

\* lines 62-65 with setupMbConfig (128-163): parse the port, marshal, write the file
SetupMbConfig ==
    /\ Alive /\ pc = "setup"
    /\ LET a == Atoi(port)
       IN IF a.err
          THEN /\ Return(<<"strconv.Atoi: parsing port: invalid syntax">>)
               /\ UNCHANGED cfgVars
          ELSE \E writeOk \in BOOLEAN :
                 IF writeOk
                 THEN /\ configFile' = <<ProxyConfig(a.n, target)>>
                      /\ configWrites' = configWrites + 1
                      /\ pc' = "start"
                      /\ UNCHANGED <<retErr, procState, exitCode>>
                 ELSE /\ Return(<<"failed to write mountebank config file: ", "permission denied">>)
                      /\ UNCHANGED cfgVars
    /\ UNCHANGED <<flagVars, deployVars, pactVars, testVars, childVars, waited, sigVars, goVars>>

\* variant: a failed mbCmd.Start() is reported with the message of a later exit
StartChild_asEarlyExit ==
    /\ Alive /\ pc = "start"
    /\ \/ /\ child' = "running"
          /\ pc' = "notify"
          /\ UNCHANGED <<retErr, procState, exitCode>>
       \/ \E reason \in StartFailures :
             /\ child' = "startfailed"
             /\ Return(<<"mountebank exited early: ", reason>>)
    /\ UNCHANGED <<flagVars, deployVars, pactVars, testVars, cfgVars, childErr, waited, sigVars, goVars>>

\* lines 67-74: exec.Command + mbCmd.Start(), then the "Listening" lines
StartChild ==
    /\ Alive /\ pc = "start"
    /\ \/ /\ child' = "running"
          /\ pc' = "notify"
          /\ UNCHANGED <<retErr, procState, exitCode>>
       \/ \E reason \in StartFailures :
             /\ child' = "startfailed"
             /\ Return(<<"failed to start mountebank: ", reason>>)
    /\ UNCHANGED <<flagVars, deployVars, pactVars, testVars, cfgVars, childErr, waited, sigVars, goVars>>

\* lines 76-77: c := make(chan os.Signal, 1); signal.Notify(c, os.Interrupt)
NotifySignal ==
    /\ Alive /\ pc = "notify"
    /\ handlerRegistered' = TRUE
    /\ c' = 0
    /\ pc' = "gofunc"
    /\ UNCHANGED <<flagVars, deployVars, pactVars, testVars, retErr, procState, exitCode, cfgVars, childVars, waited,
                   sigDelivered, sigNotified, sigDropped, goVars>>

\* lines 78-93: go func() { for range c { ... } }()
GoFunc ==
    /\ Alive /\ pc = "gofunc"
    /\ gpc' = "range"
    /\ pc' = "wait"
    /\ waited' = TRUE
    /\ UNCHANGED <<flagVars, deployVars, pactVars, testVars, retErr, procState, exitCode, cfgVars, childVars, sigVars,
                   inFlight, lastPass, passesStarted, passesDone>>

\* variant: the wait does not block on the child and its error is discarded
WaitReturn_noBlock ==
    /\ Alive /\ pc = "wait"
    /\ Return(NilErr)
    /\ UNCHANGED <<flagVars, deployVars, pactVars, testVars, cfgVars, childVars, waited, sigVars, goVars>>

\* variant: the early-exit error is built without err.Error()
WaitReturn_noReason ==
    /\ Alive /\ pc = "wait"
    /\ child = "exited"
    /\ IF childErr # NilErr
       THEN Return(<<"mountebank exited early">>)
       ELSE Return(NilErr)
    /\ UNCHANGED <<flagVars, deployVars, pactVars, testVars, cfgVars, childVars, waited, sigVars, goVars>>

\* variant: the wait also joins the signal goroutine's pass
WaitReturn_joinsPass ==
    /\ Alive /\ pc = "wait"
    /\ child = "exited"
    /\ inFlight = 0
    /\ IF childErr # NilErr
       THEN Return(<<"mountebank exited early: ">> \o childErr)
       ELSE Return(NilErr)
    /\ UNCHANGED <<flagVars, deployVars, pactVars, testVars, cfgVars, childVars, waited, sigVars, goVars>>

\* variant: the error of mbCmd.Wait() is dropped
WaitReturn_swallow ==
    /\ Alive /\ pc = "wait"
    /\ child = "exited"
    /\ Return(NilErr)
    /\ UNCHANGED <<flagVars, deployVars, pactVars, testVars, cfgVars, childVars, waited, sigVars, goVars>>

\* lines 95-100: mbCmd.Wait() returns once the child has exited
WaitReturn ==
    /\ Alive /\ pc = "wait"
    /\ child = "exited"
    /\ IF childErr # NilErr
       THEN Return(<<"mountebank exited early: ">> \o childErr)
       ELSE Return(NilErr)
    /\ UNCHANGED <<flagVars, deployVars, pactVars, testVars, cfgVars, childVars, waited, sigVars, goVars>>

(* ---------- the signal goroutine ---------- *)

\* variant: every received signal spawns its own pass and the loop keeps receiving
PassStart_spawn ==
    /\ Alive /\ gpc = "range" /\ c > 0
    /\ c' = c - 1
    /\ gpc' = "range"
    /\ inFlight' = inFlight + 1
    /\ passesStarted' = passesStarted + 1
    /\ snapshot' = store
    /\ UNCHANGED <<flagVars, deployVars, testVars, mainVars, cfgVars, childVars, waited, handlerRegistered,
                   sigDelivered, sigNotified, sigDropped, lastPass, passesDone,
                   store, outFile, outWrites, prevWrite, lastErr>>

\* lines 79-82: `for range c` receives a signal and calls utils.CreatePact,
\* which reads the capture directory
PassStart ==
    /\ Alive /\ gpc = "range" /\ c > 0
    /\ c' = c - 1
    /\ gpc' = "pass"
    /\ inFlight' = inFlight + 1
    /\ passesStarted' = passesStarted + 1
    /\ snapshot' = store
    /\ UNCHANGED <<flagVars, deployVars, testVars, mainVars, cfgVars, childVars, waited, handlerRegistered,
                   sigDelivered, sigNotified, sigDropped, lastPass, passesDone,
                   store, outFile, outWrites, prevWrite, lastErr>>

\* what the in-flight CreatePact call returns when the filesystem does `fault`
PassResult(fault) == CreatePact(snapshot, name, providerName, passesStarted, fault)

\* Contract Writer, first half: the file at `path` is opened and truncated
PassWrite ==
    /\ Alive /\ gpc = "pass"
    /\ PassResult("none").ok
    /\ gpc' = "write"
    /\ outFile' = [st |-> "partial", doc |-> NoDoc]
    /\ UNCHANGED <<flagVars, deployVars, testVars, mainVars, cfgVars, childVars, waited, sigVars,
                   inFlight, lastPass, passesStarted, passesDone,
                   store, snapshot, outWrites, prevWrite, lastErr>>

\* variant: the two reports are swapped (`if !ok`)
PassReport_swapped(ok) ==
    /\ gpc' = "range"
    /\ inFlight' = inFlight - 1
    /\ passesDone' = passesDone + 1
    /\ lastPass' = IF ok THEN "empty" ELSE "wrote"
    /\ UNCHANGED <<mainVars, passesStarted>>

\* the part of the loop body after CreatePact returned without error (lines 87-92)
PassReport(ok) ==
    /\ gpc' = "range"
    /\ inFlight' = inFlight - 1
    /\ passesDone' = passesDone + 1
    /\ lastPass' = IF ok THEN "wrote" ELSE "empty"
    /\ UNCHANGED <<mainVars, passesStarted>>

\* CreatePact returns a nil error: either the write completes (ok) or there
\* was nothing to write (!ok); the loop reports and receives again
PassOk ==
    /\ \/ /\ gpc = "write"
          /\ LET r == PassResult("none")
             IN /\ outFile' = [st |-> "complete", doc |-> r.doc]
                /\ prevWrite' = [src |-> snapshot, doc |-> r.doc]
                /\ PassReport(r.ok)
          /\ outWrites' = outWrites + 1
       \/ /\ gpc # "write"
          /\ \E fault \in Faults :
                LET r == PassResult(fault)
                IN /\ r.err = NilErr /\ ~r.ok
                   /\ PassReport(r.ok)
          /\ UNCHANGED <<outFile, outWrites, prevWrite>>
    /\ snapshot' = <<>>
    /\ UNCHANGED lastErr

\* the error CreatePact returns: a read fault, a refused open, or a write
\* fault after the file was truncated
PassFailure(err) ==
    \E fault \in Faults :
       /\ gpc = "write" => fault = "write"
       /\ PassResult(fault).err = err
       /\ err # NilErr

\* lines 83-85: log.Fatal(err) = os.Exit(1)
PassFatal ==
    \E err \in {ReadError, WriteError, MalformedRecord} :
       /\ PassFailure(err)
       /\ lastPass' = "err"
       /\ lastErr' = err
       /\ procState' = "fatal"
       /\ exitCode' = 1
       /\ UNCHANGED <<pc, retErr, gpc, inFlight, passesStarted, passesDone,
                      snapshot, outFile, outWrites, prevWrite>>

\* variant: the error is logged and the loop goes on
PassEnd_logOnly ==
    /\ Alive /\ inFlight > 0
    /\ \/ PassOk
       \/ \E err \in {ReadError, WriteError, MalformedRecord} :
             /\ PassFailure(err)
             /\ gpc' = "range"
             /\ inFlight' = inFlight - 1
             /\ lastPass' = "err"
             /\ lastErr' = err
             /\ UNCHANGED <<mainVars, passesStarted, passesDone,
                            snapshot, outFile, outWrites, prevWrite>>
    /\ UNCHANGED <<flagVars, deployVars, testVars, cfgVars, childVars, waited, sigVars, store>>

\* variant: a completed pass also stops the supervised child
PassEnd_killsChild ==
    /\ Alive /\ inFlight > 0
    /\ \/ /\ PassOk
          /\ child' = IF child = "running" THEN "exited" ELSE child
          /\ childErr' = IF child = "running" THEN <<"signal: killed">> ELSE childErr
       \/ /\ PassFatal
          /\ UNCHANGED childVars
    /\ UNCHANGED <<flagVars, deployVars, testVars, cfgVars, waited, sigVars, store>>

\* lines 82-92: CreatePact returns (err, ok); err is fatal, otherwise report
PassEnd ==
    /\ Alive /\ inFlight > 0
    /\ \/ PassOk
       \/ PassFatal
    /\ UNCHANGED <<flagVars, deployVars, testVars, cfgVars, childVars, waited, sigVars, store>>

(* ---------- the environment ---------- *)

\* variant: make(chan os.Signal, 2) - two signals can wait in the channel
DeliverSignal_buffer2 ==
    /\ Alive /\ sigDelivered < MaxSignals
    /\ sigDelivered' = sigDelivered + 1
    /\ IF ~handlerRegistered
       THEN /\ procState' = "killed"
            /\ exitCode' = 130
            /\ UNCHANGED <<c, sigNotified, sigDropped>>
       ELSE /\ sigNotified' = sigNotified + 1
            /\ IF c < 2
               THEN c' = c + 1 /\ UNCHANGED sigDropped
               ELSE sigDropped' = sigDropped + 1 /\ UNCHANGED c
            /\ UNCHANGED <<procState, exitCode>>
    /\ UNCHANGED <<flagVars, deployVars, pactVars, testVars, pc, retErr, cfgVars, childVars, waited, handlerRegistered, goVars>>

\* variant: an unbuffered channel - a signal is kept only if the loop is receiving
DeliverSignal_unbuffered ==
    /\ Alive /\ sigDelivered < MaxSignals
    /\ sigDelivered' = sigDelivered + 1
    /\ IF ~handlerRegistered
       THEN /\ procState' = "killed"
            /\ exitCode' = 130
            /\ UNCHANGED <<c, sigNotified, sigDropped>>
       ELSE /\ sigNotified' = sigNotified + 1
            /\ IF gpc = "range" /\ c = 0
               THEN c' = c + 1 /\ UNCHANGED sigDropped
               ELSE sigDropped' = sigDropped + 1 /\ UNCHANGED c
            /\ UNCHANGED <<procState, exitCode>>
    /\ UNCHANGED <<flagVars, deployVars, pactVars, testVars, pc, retErr, cfgVars, childVars, waited, handlerRegistered, goVars>>

\* an os.Interrupt reaches the process: before signal.Notify the Go runtime's
\* default action ends the process; afterwards os/signal does a non-blocking
\* send on c (capacity 1, line 76) and discards the signal when c is full
DeliverSignal ==
    /\ Alive /\ sigDelivered < MaxSignals
    /\ sigDelivered' = sigDelivered + 1
    /\ IF ~handlerRegistered
       THEN /\ procState' = "killed"
            /\ exitCode' = 130
            /\ UNCHANGED <<c, sigNotified, sigDropped>>
       ELSE /\ sigNotified' = sigNotified + 1
            /\ IF c < 1
               THEN c' = c + 1 /\ UNCHANGED sigDropped
               ELSE sigDropped' = sigDropped + 1 /\ UNCHANGED c
            /\ UNCHANGED <<procState, exitCode>>
    /\ UNCHANGED <<flagVars, deployVars, pactVars, testVars, pc, retErr, cfgVars, childVars, waited, handlerRegistered, goVars>>

\* mountebank records one more exchange in stubsDir (possibly caught mid-write);
\* the directory is followed for as long as the command lives
EngineRecord ==
    /\ Alive /\ child = "running"
    /\ Len(store) < MaxRecords
    /\ \E r \in LiveRecords : store' = Append(store, r)
    /\ UNCHANGED <<flagVars, deployVars, testVars, mainVars, cfgVars, childVars, waited, sigVars, goVars,
                   snapshot, outFile, outWrites, prevWrite, lastErr>>

\* the mountebank child ends on its own, gracefully or not
ChildExit ==
    /\ child = "running"
    /\ child' = "exited"
    /\ \/ childErr' = NilErr
       \/ \E reason \in ChildFailures : childErr' = <<reason>>
    /\ UNCHANGED <<flagVars, deployVars, pactVars, testVars, mainVars, cfgVars, waited, sigVars, goVars>>

Next ==
    \/ ValidateFlags
    \/ GetNpmPkgRoot
    \/ SetupMbConfig
    \/ StartChild
    \/ NotifySignal
    \/ GoFunc
    \/ WaitReturn
    \/ PassStart
    \/ PassWrite
    \/ PassEnd
    \/ DeliverSignal
    \/ EngineRecord
    \/ ChildExit

Spec == Init /\ [][Next]_vars

\* the Go scheduler runs both goroutines, CreatePact returns, and a started
\* child is a process that the operating system lets end
FairSpec ==
    /\ Spec
    /\ WF_vars(ValidateFlags) /\ WF_vars(GetNpmPkgRoot) /\ WF_vars(SetupMbConfig)
    /\ WF_vars(StartChild) /\ WF_vars(NotifySignal) /\ WF_vars(GoFunc)
    /\ WF_vars(WaitReturn) /\ WF_vars(PassStart) /\ WF_vars(PassWrite) /\ WF_vars(PassEnd)

(* ---------- synthesis passes over arbitrary capture directories ---------- *)

\* the proxy is up (RunE blocked in mbCmd.Wait, the loop receiving), one
\* interrupt is buffered and mountebank has captured any bounded sequence
PassInit ==
    /\ path = <<"x">> /\ port = <<"1">> /\ target = <<"x">>
    /\ name = <<"x">> /\ providerName = <<"x">>
    /\ pc = "wait" /\ retErr = NilErr /\ procState = "running" /\ exitCode = -1
    /\ configFile = <<ProxyConfig(Atoi(port).n, target)>> /\ configWrites = 1
    /\ child = "running" /\ childErr = NilErr /\ waited = TRUE
    /\ handlerRegistered = TRUE /\ c = 1
    /\ sigDelivered = 1 /\ sigNotified = 1 /\ sigDropped = 0
    /\ gpc = "range" /\ inFlight = 0 /\ lastPass = "none"
    /\ passesStarted = 0 /\ passesDone = 0
    /\ store \in CaptureSeqs(MaxCapture)
    /\ snapshot = <<>> /\ outFile = NoFile /\ outWrites = 0
    /\ prevWrite = [src |-> <<>>, doc |-> NoDoc] /\ lastErr = NilErr
    /\ brokerURL = <<>> /\ version = <<>> /\ providerURL = <<>>
    /\ dreddErr = NilErr /\ dreddOut = <<>> /\ printed = <<>> /\ published = 0
    /\ BrokerBaseURL = <<>> /\ Version = <<>> /\ environment = <<>>
    /\ delete = FALSE /\ requests = <<>>

PassNext == PassStart \/ PassWrite \/ PassEnd \/ DeliverSignal

PassSpec == PassInit /\ [][PassNext]_vars

(* ---------- the test command (cmd/verify_provider.go) ---------- *)

VersionStrings == {<<>>, <<"auto">>, <<"1.0">>}
NodeWarning == "(node:1) Warning: deprecated"
DreddOuts == {<<>>, <<"fail: GET /a">>, <<NodeWarning, "fail: GET /a">>, <<NodeWarning>>}
DreddFailure == <<"exit status 1">>
FailLine == "FAIL: Provider test failed - the provider service does not correctly implement the API spec"
PassLine == "PASS: Provider test passed - the provider service correctly implements the API spec"

\* utils.SliceOutNodeWarnings: the node warning lines are cut out of the output
SliceOutNodeWarnings(out) == SelectSeq(out, LAMBDA l : l # NodeWarning)

\* validateTestFlags; gitOk says whether utils.SetVersionToGitSha succeeds
validateTestFlags(b, n, v, u, gitOk) ==
    IF Len(b) = 0 THEN <<"No --broker-url was provided. This is a required flag.">>
    ELSE IF Len(n) = 0 THEN <<"No --name was provided. This is a required flag.">>
    ELSE IF (v = <<>> \/ v = <<"auto">>) /\ ~gitOk THEN <<"git rev-parse failed">>
    ELSE IF Len(u) = 0 THEN <<"No --provider-url was provided. This is a required flag.">>
    ELSE NilErr

TestInit ==
    /\ brokerURL \in FlagStrings /\ name \in FlagStrings
    /\ version \in VersionStrings /\ providerURL \in FlagStrings
    /\ path = <<>> /\ port = <<>> /\ target = <<>> /\ providerName = <<>>
    /\ pc = "t_validate" /\ retErr = NilErr /\ procState = "running" /\ exitCode = -1
    /\ configFile = <<>> /\ configWrites = 0
    /\ child = "notstarted" /\ childErr = NilErr /\ waited = FALSE
    /\ handlerRegistered = FALSE /\ c = 0
    /\ sigDelivered = 0 /\ sigNotified = 0 /\ sigDropped = 0
    /\ gpc = "none" /\ inFlight = 0 /\ lastPass = "none"
    /\ passesStarted = 0 /\ passesDone = 0
    /\ store = <<>> /\ snapshot = <<>> /\ outFile = NoFile /\ outWrites = 0
    /\ prevWrite = [src |-> <<>>, doc |-> NoDoc] /\ lastErr = NilErr
    /\ dreddErr = NilErr /\ dreddOut = <<>> /\ printed = <<>> /\ published = 0
    /\ BrokerBaseURL = <<>> /\ Version = <<>> /\ environment = <<>>
    /\ delete = FALSE /\ requests = <<>>

\* a step of testCmd.RunE that goes on to `next` or returns the error of a failed call
TestStep(at, next, failure, line) ==
    /\ Alive /\ pc = at
    /\ \/ /\ pc' = next
          /\ UNCHANGED <<retErr, procState, exitCode, printed>>
       \/ /\ Return(failure)
          /\ printed' = printed \o line
    /\ UNCHANGED <<flagVars, deployVars, proxyVars, brokerURL, version, providerURL,
                   dreddErr, dreddOut, published>>

\* lines 37-43
TestValidate ==
    /\ Alive /\ pc = "t_validate"
    /\ \E gitOk \in BOOLEAN :
          LET err == validateTestFlags(brokerURL, name, version, providerURL, gitOk)
          IN IF err # NilErr THEN Return(err)
             ELSE /\ pc' = "t_getspec"
                  /\ UNCHANGED <<retErr, procState, exitCode>>
    /\ UNCHANGED <<flagVars, deployVars, proxyVars, testVars>>

\* lines 45-48: client.GetLatestSpec
TestGetSpec ==
    /\ pc = "t_getspec"
    /\ TestStep("t_getspec", "t_pkgroot", <<"GetLatestSpec failed">>, <<>>)

\* lines 50-55: utils.GetNpmPkgRoot
TestPkgRoot ==
    /\ pc = "t_pkgroot"
    /\ TestStep("t_pkgroot", "t_writespec", <<"npm root failed">>, <<>>)

\* lines 59-63: os.WriteFile(specPath, spec, 0666)
TestWriteSpec ==
    /\ pc = "t_writespec"
    /\ TestStep("t_writespec", "t_dredd", <<"permission denied">>,
                <<"Failed to write specs/spec file">>)

\* lines 66-68: shcmd2.CombinedOutput()
TestDredd ==
    /\ Alive /\ pc = "t_dredd"
    /\ dreddErr' \in {NilErr, DreddFailure}
    /\ dreddOut' \in DreddOuts
    /\ pc' = "t_eval"
    /\ UNCHANGED <<flagVars, deployVars, proxyVars, retErr, procState, exitCode,
                   brokerURL, version, providerURL, printed, published>>

\* variant: the publication is not under the else branch
TestEval_publishAlways ==
    /\ Alive /\ pc = "t_eval"
    /\ IF dreddErr # NilErr /\ Len(dreddOut) = 0
       THEN /\ printed' = Append(printed, "Failed to execute dredd")
            /\ Return(dreddErr)
            /\ UNCHANGED published
       ELSE /\ published' = published + 1
            /\ \E pubOk \in BOOLEAN :
                 LET verdict == IF dreddErr # NilErr
                                THEN <<FailLine, "Breakdown of interactions:">>
                                        \o SliceOutNodeWarnings(dreddOut)
                                ELSE <<PassLine, "Informing the Signet broker of successful verification...">>
                 IN IF pubOk
                    THEN /\ printed' = printed \o verdict
                                         \o <<"Verification results published to Signet broker.">>
                         /\ Return(NilErr)
                    ELSE /\ printed' = printed \o verdict
                         /\ Return(<<"PublishProvider failed">>)
    /\ UNCHANGED <<flagVars, deployVars, proxyVars, brokerURL, version, providerURL, dreddErr, dreddOut>>

\* lines 70-96: judge the dredd run, publish on success
TestEval ==
    /\ Alive /\ pc = "t_eval"
    /\ IF dreddErr # NilErr /\ Len(dreddOut) = 0
       THEN /\ printed' = Append(printed, "Failed to execute dredd")
            /\ Return(dreddErr)
            /\ UNCHANGED published
       ELSE IF dreddErr # NilErr
       THEN /\ printed' = printed \o <<FailLine, "Breakdown of interactions:">>
                              \o SliceOutNodeWarnings(dreddOut)
            /\ Return(NilErr)
            /\ UNCHANGED published
       ELSE /\ published' = published + 1
            /\ \E pubOk \in BOOLEAN :
                 IF pubOk
                 THEN /\ printed' = printed \o
                           <<PassLine, "Informing the Signet broker of successful verification...",
                             "Verification results published to Signet broker.">>
                      /\ Return(NilErr)
                 ELSE /\ printed' = printed \o
                           <<PassLine, "Informing the Signet broker of successful verification...">>
                      /\ Return(<<"PublishProvider failed">>)
    /\ UNCHANGED <<flagVars, deployVars, proxyVars, brokerURL, version, providerURL, dreddErr, dreddOut>>

TestNext ==
    \/ TestValidate
    \/ TestGetSpec
    \/ TestPkgRoot
    \/ TestWriteSpec
    \/ TestDredd
    \/ TestEval

TestSpec == TestInit /\ [][TestNext]_vars

(* ---------- the update-deployment command ---------- *)

GitSha == <<"3f2a9c1">>
ParticipantsPath == "/api/participants"
BrokerFailure == <<"broker: request failed">>
NoBrokerURL == "No --broker-url was provided. This is a required flag."
NoName == "No --name was provided. A value for this flag is required."
NoEnvironment == "No --environment was provided. A value for this flag is required."

\* variant: Deployed carries the --delete flag itself
MarshalDeploymentBody_deployedIsDelete(e, n, v, d) ==
    [environmentName |-> e, participantName |-> n,
     participantVersion |-> v, deployed |-> d]

\* json.Marshal(DeploymentBody{...}) with Deployed: !delete, keyed by the json tags
MarshalDeploymentBody(e, n, v, d) ==
    [environmentName |-> e, participantName |-> n,
     participantVersion |-> v, deployed |-> ~d]

\* updateDeploymentCmd.RunE is entered with the flags parsed into the globals
DeployInit ==
    /\ BrokerBaseURL \in FlagStrings /\ name \in FlagStrings
    /\ Version \in VersionStrings /\ environment \in FlagStrings
    /\ delete \in BOOLEAN /\ requests = <<>>
    /\ path = <<>> /\ port = <<>> /\ target = <<>> /\ providerName = <<>>
    /\ pc = "d_broker" /\ retErr = NilErr /\ procState = "running" /\ exitCode = -1
    /\ configFile = <<>> /\ configWrites = 0
    /\ child = "notstarted" /\ childErr = NilErr /\ waited = FALSE
    /\ handlerRegistered = FALSE /\ c = 0
    /\ sigDelivered = 0 /\ sigNotified = 0 /\ sigDropped = 0
    /\ gpc = "none" /\ inFlight = 0 /\ lastPass = "none"
    /\ passesStarted = 0 /\ passesDone = 0
    /\ store = <<>> /\ snapshot = <<>> /\ outFile = NoFile /\ outWrites = 0
    /\ prevWrite = [src |-> <<>>, doc |-> NoDoc] /\ lastErr = NilErr
    /\ brokerURL = <<>> /\ version = <<>> /\ providerURL = <<>>
    /\ dreddErr = NilErr /\ dreddOut = <<>> /\ printed = <<>> /\ published = 0

\* a guard of updateDeploymentCmd.RunE: return `failure` when `flag` is empty
DeployGuard(at, next, flag, failure) ==
    /\ Alive /\ pc = at
    /\ IF Len(flag) = 0
       THEN Return(<<failure>>)
       ELSE /\ pc' = next
            /\ UNCHANGED <<retErr, procState, exitCode>>
    /\ UNCHANGED <<flagVars, proxyVars, testVars, deployVars>>

\* lines 172-174
DeployCheckBroker ==
    /\ pc = "d_broker"
    /\ DeployGuard("d_broker", "d_name", BrokerBaseURL, NoBrokerURL)

\* lines 176-178
DeployCheckName ==
    /\ pc = "d_name"
    /\ DeployGuard("d_name", "d_version", name, NoName)

\* lines 180-182: SetVersionToGitSha() returns nothing; it either sets Version
\* to the sha of HEAD or, outside a git work tree, leaves it as it was
DeploySetVersion ==
    /\ Alive /\ pc = "d_version"
    /\ IF Version = <<>> \/ Version = <<"auto">>
       THEN Version' \in {GitSha, Version}
       ELSE UNCHANGED Version
    /\ pc' = "d_env"
    /\ UNCHANGED <<flagVars, proxyVars, testVars, retErr, procState, exitCode,
                   BrokerBaseURL, environment, delete, requests>>

\* lines 184-186
DeployCheckEnvironment ==
    /\ pc = "d_env"
    /\ DeployGuard("d_env", "d_send", environment, NoEnvironment)

\* lines 188-205: build the body, marshal it, call the broker, return its error
DeploySend ==
    /\ Alive /\ pc = "d_send"
    /\ requests' = Append(requests,
                          [url |-> BrokerBaseURL \o <<ParticipantsPath>>,
                           jsonData |-> MarshalDeploymentBody(environment, name,
                                                              Version, delete)])
    /\ \E err \in {NilErr, BrokerFailure} : Return(err)
    /\ UNCHANGED <<flagVars, proxyVars, testVars,
                   BrokerBaseURL, Version, environment, delete>>

DeployNext ==
    \/ DeployCheckBroker
    \/ DeployCheckName
    \/ DeploySetVersion
    \/ DeployCheckEnvironment
    \/ DeploySend

DeploySpec == DeployInit /\ [][DeployNext]_vars

(* ---------- vocabulary of the properties ---------- *)

ChildStarted == child \in {"running", "exited"}
ProxyExited == procState = "returned" /\ waited
IsDigitStr(s) == Len(s) > 0 /\ \A i \in 1..Len(s) : s[i] \in Digits
Numeric(s) ==
    \/ IsDigitStr(s)
    \/ Len(s) > 1 /\ s[1] \in {"-", "+"} /\ IsDigitStr(SubSeq(s, 2, Len(s)))
AtoiSyntaxErr == <<"strconv.Atoi: parsing port: invalid syntax">>
StartupPrefix == "failed to start mountebank: "
EarlyExitPrefix == "mountebank exited early: "
Mentions(err, reason) == \E i \in 1..Len(err) : err[i] = reason

(* ---------- C1 ---------- *)
\* C1 (as stated): whenever the child has been started, the interrupt handler
\* is already registered.  RunE calls mbCmd.Start() (line 68) before
\* signal.Notify (line 77), so the state between the two violates it.
CE_C1 == ChildStarted => handlerRegistered

(* ---------- C2 ---------- *)
\* C2 (as stated): once the loop is idle again with nothing buffered, the child
\* still running and no pass failed, as many passes were started as signals
\* were delivered.
CE_C2 ==
    (Alive /\ child = "running" /\ lastPass # "err" /\ gpc = "range"
       /\ c = 0 /\ inFlight = 0)
    => passesStarted = sigDelivered

\* C2 (amended): every signal delivered after signal.Notify is either started
\* as a pass, still buffered, or was discarded, and it is discarded only when
\* another signal was already buffered; a buffered signal is eventually taken
\* by a pass unless the command ends first.
Thm_C2 ==
    /\ [](handlerRegistered => passesStarted + c + sigDropped = sigNotified)
    /\ [][sigDropped' # sigDropped => c = 1]_vars
    /\ ((Alive /\ c > 0) ~> (c = 0 \/ ~Alive))

Wit_C2 == sigDropped > 0 /\ passesStarted >= 2 /\ child = "running" /\ lastPass # "err"

(* ---------- C3 ---------- *)
\* C3: at most one CreatePact pass is in flight in every reachable state,
\* whatever the interleaving of repeated interrupts.
Thm_C3 == inFlight <= 1

Wit_C3 == inFlight = 1 /\ c = 1 /\ sigDropped > 0 /\ child = "running"

(* ---------- C4 ---------- *)
\* C4: neither the delivery of an interrupt nor the end of a pass changes the
\* child's state, and RunE returns from the wait only after the child exited.
Thm_C4 ==
    [][/\ (sigDelivered' # sigDelivered \/ passesDone' # passesDone
             \/ lastPass' # lastPass \/ passesStarted' # passesStarted)
          => (child' = child /\ childErr' = childErr)
       /\ (ProxyExited' /\ ~ProxyExited) => (child = "exited" /\ child' = "exited")]_vars

Wit_C4 == passesDone > 0 /\ lastPass \in {"wrote", "empty"} /\ child = "running" /\ Alive

(* ---------- C5 ---------- *)
\* C5 (as stated): in every state where the child is running the command has
\* not terminated.
CE_C5 == child = "running" => procState = "running"

\* C5 (amended): while the child is running RunE never returns; the command
\* has ended with the child still running only through a fatal synthesis
\* failure or through an interrupt that arrived before signal.Notify; and once
\* the child has exited the command terminates.
Thm_C5 ==
    /\ [](child = "running" => procState \in {"running", "fatal", "killed"})
    /\ [](child = "running" /\ procState = "fatal" => lastPass = "err")
    /\ [](child = "running" /\ procState = "killed" => ~handlerRegistered)
    /\ (child = "exited" ~> ~Alive)

Wit_C5 == child = "running" /\ Alive /\ pc = "wait" /\ passesDone >= 2

(* ---------- C6 ---------- *)
\* C6: a pass that returns an error ends the process at once with a non-zero
\* status, possibly while the child still runs, and no pass starts afterwards.
Thm_C6 ==
    /\ [](lastPass = "err" => procState = "fatal" /\ exitCode > 0)
    /\ [][lastPass = "err" => passesStarted' = passesStarted /\ procState' = "fatal"]_vars

Wit_C6 == lastPass = "err" /\ procState = "fatal" /\ child = "running" /\ c = 1

(* ---------- C7 ---------- *)
\* C7: with a port string that is not a decimal integer the command never gets
\* past setupMbConfig: no config file is written, the child is never started,
\* and a RunE that returned has returned an error.
Thm_C7 ==
    ~Numeric(port) =>
        /\ configWrites = 0 /\ configFile = <<>>
        /\ child = "notstarted"
        /\ pc \in {"validate", "pkgroot", "setup", "returned"}
        /\ (pc = "returned" => retErr # NilErr)

Wit_C7 == ~Numeric(port) /\ Len(port) > 0 /\ pc = "returned" /\ retErr = AtoiSyntaxErr

(* ---------- C8 ---------- *)
\* C8 (as stated): a port that parses as zero or as a negative integer never
\* leads to a written config file.  setupMbConfig only checks Atoi's error.
CE_C8 == (~Atoi(port).err /\ Atoi(port).n <= 0) => (configWrites = 0 /\ configFile = <<>>)

(* ---------- C9 ---------- *)
\* C9: a failed start returns the startup error with no handler registered and
\* no wait, never the early-exit error; a started child that ends with an
\* error is reported as an early exit, never as a startup error.
Thm_C9 ==
    /\ child = "startfailed" =>
          /\ pc = "returned" /\ retErr # NilErr
          /\ retErr[1] = StartupPrefix
          /\ ~handlerRegistered /\ ~waited /\ gpc = "none"
    /\ (retErr # NilErr /\ retErr[1] = StartupPrefix) => child = "startfailed"
    /\ (retErr # NilErr /\ retErr[1] = EarlyExitPrefix) =>
          (child = "exited" /\ childErr # NilErr /\ waited)
    /\ (pc = "returned" /\ ChildStarted) =>
          /\ child = "exited" /\ waited
          /\ IF childErr # NilErr THEN retErr[1] = EarlyExitPrefix ELSE retErr = NilErr

Wit_C9 == child = "startfailed" /\ pc = "returned" /\ retErr[1] = StartupPrefix

(* ---------- C10 ---------- *)
\* C10: when the child exited with an error and no interrupt was ever
\* delivered, the command ends, it ends by returning a non-nil error, and the
\* error message contains the child's failure reason.
Thm_C10 ==
    /\ [](child = "exited" /\ childErr # NilErr /\ sigDelivered = 0 /\ ~Alive
            => /\ procState = "returned"
               /\ retErr # NilErr
               /\ Mentions(retErr, childErr[1]))
    /\ ((child = "exited" /\ childErr # NilErr) ~> ~Alive)

Wit_C10 ==
    /\ child = "exited" /\ childErr = <<"exit status 1">> /\ sigDelivered = 0
    /\ procState = "returned" /\ retErr = <<EarlyExitPrefix, "exit status 1">>

(* ---------- C11 ---------- *)
GracefulExit == procState = "returned" /\ waited /\ child = "exited" /\ childErr = NilErr

\* C11: the command ends with status 0 exactly when it returned from the wait
\* on a child that exited gracefully; every other ending (flag or config
\* error, startup failure, child crash, fatal synthesis failure, default
\* interrupt) has a status above 0.
Thm_C11 ==
    /\ (exitCode = 0) <=> GracefulExit
    /\ Alive <=> (exitCode = -1)
    /\ (~Alive /\ ~GracefulExit) => exitCode > 0
    /\ (procState = "returned" /\ retErr # NilErr) => exitCode > 0
    /\ procState = "fatal" => exitCode > 0

Wit_C11 == exitCode = 0 /\ GracefulExit /\ passesDone > 0

(* ---------- C12 ---------- *)
\* C12: a pass that read an empty capture directory never opens the output
\* file; when it returns it reports "no interactions" (ok = false), leaves the
\* output file and the write count as they were, and the loop receives again
\* with the command alive; it fails only if the directory could not be read.
Thm_C12 ==
    /\ [](gpc = "write" => snapshot # <<>>)
    /\ [][(gpc = "pass" /\ snapshot = <<>> /\ passesDone' = passesDone + 1)
            => /\ lastPass' = "empty"
               /\ outFile' = outFile /\ outWrites' = outWrites
               /\ procState' = "running" /\ gpc' = "range"]_vars
    /\ [][(gpc = "pass" /\ snapshot = <<>> /\ procState' = "fatal")
            => lastErr' = ReadError]_vars

Wit_C12 ==
    /\ lastPass = "empty" /\ passesDone >= 2 /\ store = <<>>
    /\ outFile = NoFile /\ Alive /\ gpc = "range"

ValidOf(rs) == SelectSeq(rs, LAMBDA r : r.ok)
FirstAt(rs, x) ==
    CHOOSE i \in 1..Len(rs) :
        Interaction(rs[i]) = x /\ \A j \in 1..(i - 1) : Interaction(rs[j]) # x
DedupInOrder(rs, out) ==
    /\ \A i \in 1..Len(rs) : \E j \in 1..Len(out) : out[j] = Interaction(rs[i])
    /\ \A j \in 1..Len(out) : \E i \in 1..Len(rs) : out[j] = Interaction(rs[i])
    /\ \A j1, j2 \in 1..Len(out) :
          j1 < j2 => (out[j1] # out[j2] /\ FirstAt(rs, out[j1]) < FirstAt(rs, out[j2]))

\* C14: the interactions of every written document are exactly one per
\* distinct key of the records read, in the order of each key's first
\* occurrence; [A, B, A, C] gives [A, B, C].
Thm_C14 ==
    outWrites > 0 =>
        /\ DedupInOrder(ValidOf(prevWrite.src), prevWrite.doc.interactions)
        /\ prevWrite.src = <<RecA, RecB, RecA, RecC>> =>
              prevWrite.doc.interactions =
                  <<Interaction(RecA), Interaction(RecB), Interaction(RecC)>>

Wit_C14 == outWrites > 0 /\ prevWrite.src = <<RecA, RecB, RecA, RecC>> /\ outFile.st = "complete"

(* ---------- C15 ---------- *)
OneMalformed(rs) ==
    /\ Cardinality({i \in 1..Len(rs) : ~rs[i].ok}) = 1
    /\ \A i, j \in 1..Len(rs) : (i # j /\ rs[i].ok /\ rs[j].ok) => Key(rs[i]) # Key(rs[j])

\* C15: a document written from N pairwise distinct valid records and one
\* malformed record has exactly N interactions, none of them from the
\* malformed record; a pass fails only on a read or write fault of the
\* filesystem, never on a malformed record.
Thm_C15 ==
    /\ (outWrites > 0 /\ OneMalformed(prevWrite.src)) =>
          /\ Len(prevWrite.doc.interactions) = Len(prevWrite.src) - 1
          /\ \A j \in 1..Len(prevWrite.doc.interactions) :
                prevWrite.doc.interactions[j] # Interaction(RecBad)
    /\ (gpc = "pass" /\ OneMalformed(snapshot)) => PassResult("none").err = NilErr
    /\ lastPass = "err" => lastErr \in {ReadError, WriteError}

Wit_C15 ==
    /\ outWrites > 0 /\ OneMalformed(prevWrite.src) /\ Len(prevWrite.src) = 4
    /\ Alive /\ lastPass = "wrote"

(* ---------- C16 ---------- *)
\* the command-level state of section 4; "Aborted" is an ending before the
\* proxy runs (flag, config or startup error, default interrupt)
CmdState ==
    IF procState = "fatal" \/ lastPass = "err" THEN "SynthesisFailed"
    ELSE IF procState = "killed" THEN "Aborted"
    ELSE IF procState = "returned" THEN (IF waited THEN "ProxyExited" ELSE "Aborted")
    ELSE IF pc \in {"validate", "pkgroot", "setup"} THEN "Idle"
    ELSE IF pc = "start" THEN "ConfigWritten"
    ELSE IF pc \in {"notify", "gofunc"} THEN "ProxyStarting"
    ELSE IF inFlight > 0 THEN "SynthesisInProgress"
    ELSE IF lastPass = "none" THEN "ProxyRunning"
    ELSE "SynthesisComplete"

Transitions ==
    {<<"Idle", "ConfigWritten">>, <<"ConfigWritten", "ProxyStarting">>,
     <<"ProxyStarting", "ProxyRunning">>,
     <<"ProxyRunning", "SynthesisInProgress">>,
     <<"SynthesisInProgress", "SynthesisComplete">>,
     <<"SynthesisInProgress", "SynthesisFailed">>,
     <<"SynthesisComplete", "SynthesisInProgress">>,
     <<"ProxyRunning", "ProxyExited">>, <<"SynthesisInProgress", "ProxyExited">>,
     <<"SynthesisComplete", "ProxyExited">>,
     <<"Idle", "Aborted">>, <<"ConfigWritten", "Aborted">>, <<"ProxyStarting", "Aborted">>}

Thm_C17 ==
    /\ [](configWrites <= 1)
    /\ [](child # "notstarted" =>
            (configWrites = 1 /\ configFile = <<ProxyConfig(Atoi(port).n, target)>>))
    /\ [][pc # "setup" => (configFile' = configFile /\ configWrites' = configWrites)]_vars
    /\ [][configWrites' # configWrites => (child = "notstarted" /\ child' = "notstarted")]_vars

Wit_C17 == configWrites = 1 /\ child = "exited" /\ passesDone > 0 /\ sigDropped > 0

(* ---------- C18 ---------- *)
\* C18: once the child has exited, RunE can return from the wait whether or
\* not a pass is in flight; the return leaves the pass where it was and
\* nothing of the pass happens afterwards, so the output file stays partial
\* when the pass had opened it, and otherwise absent or as last completed.
Thm_C18 ==
    /\ []((Alive /\ pc = "wait" /\ child = "exited") => ENABLED WaitReturn)
    /\ [][(ProxyExited' /\ ~ProxyExited) => UNCHANGED <<goVars, pactVars>>]_vars
    /\ [][~Alive => UNCHANGED <<goVars, outFile, outWrites, prevWrite>>]_vars
    /\ []((ProxyExited /\ gpc = "write") => outFile.st = "partial")
    /\ []((ProxyExited /\ gpc = "pass") =>
            \/ outFile = NoFile /\ outWrites = 0
            \/ outFile = [st |-> "complete", doc |-> prevWrite.doc] /\ outWrites > 0)

Wit_C18 == ProxyExited /\ gpc = "write" /\ inFlight = 1 /\ outFile.st = "partial"

(* ---------- C19 ---------- *)
FlagVals == <<path, port, target, name, providerName>>
FlagMsgs ==
    <<"No --path was provided. This is a required flag.",
      "No --port was provided. This is a required flag.",
      "No --target was provided. This is a required flag.",
      "No --name was provided. This is a required flag.",
      "No --provider-name was provided. This is a required flag.">>
AnyEmpty == \E i \in 1..5 : FlagVals[i] = <<>>
FirstEmpty == CHOOSE i \in 1..5 : FlagVals[i] = <<>> /\ \A j \in 1..(i - 1) : FlagVals[j] # <<>>

\* C19: validateProxyFlags fails exactly when one of the five flags is empty,
\* with the message of the first empty one; then RunE returns that error and
\* has written no config, started no child and registered no handler.
Thm_C19 ==
    /\ (validateProxyFlags(path, port, target, name, providerName) # NilErr) <=> AnyEmpty
    /\ AnyEmpty =>
          /\ validateProxyFlags(path, port, target, name, providerName) = <<FlagMsgs[FirstEmpty]>>
          /\ configWrites = 0 /\ configFile = <<>>
          /\ child = "notstarted" /\ ~handlerRegistered /\ gpc = "none"
          /\ pc \in {"validate", "returned"}
          /\ pc = "returned" => retErr = <<FlagMsgs[FirstEmpty]>>
    /\ (pc = "returned" /\ \E i \in 1..5 : retErr = <<FlagMsgs[i]>>) => AnyEmpty

Wit_C19 ==
    /\ path = <<>> /\ port = <<>> /\ name = <<>> /\ target # <<>>
    /\ pc = "returned" /\ retErr = <<FlagMsgs[1]>>

(* ---------- C20 ---------- *)
Printed(line) == \E i \in 1..Len(printed) : printed[i] = line

\* C20: PublishProvider is called at most once and only after dredd returned
\* no error; a dredd failure with output prints FAIL and returns nil, a dredd
\* failure without output returns dredd's error, and neither publishes.
Thm_C20 ==
    /\ published <= 1
    /\ published > 0 => (dreddErr = NilErr /\ Printed(PassLine) /\ pc = "returned")
    /\ dreddErr # NilErr => published = 0
    /\ (pc = "returned" /\ dreddErr # NilErr /\ dreddOut # <<>>) =>
          (retErr = NilErr /\ Printed(FailLine) /\ ~Printed(PassLine))
    /\ (pc = "returned" /\ dreddErr # NilErr /\ dreddOut = <<>>) =>
          (retErr = dreddErr /\ ~Printed(FailLine) /\ ~Printed(PassLine))

Wit_C20 ==
    /\ pc = "returned" /\ dreddErr = DreddFailure /\ dreddOut = <<NodeWarning, "fail: GET /a">>
    /\ retErr = NilErr /\ published = 0 /\ Printed(FailLine)

(* ---------- C21 ---------- *)

DeployVals == <<BrokerBaseURL, name, environment>>
DeployMsgs == <<NoBrokerURL, NoName, NoEnvironment>>
DeployMissing == {i \in 1..3 : DeployVals[i] = <<>>}
DeployFirstMissing == CHOOSE i \in DeployMissing : \A j \in DeployMissing : i <= j

\* C21: update-deployment calls the broker only once broker URL, name and
\* environment were all found non-empty; the first missing one, in that order,
\* is the error reported and then no call is made; the body's deployed field
\* is the negation of --delete
Thm_C21 ==
    /\ Len(requests) <= 1
    /\ requests # <<>> =>
          /\ DeployMissing = {}
          /\ requests[1].url = BrokerBaseURL \o <<ParticipantsPath>>
          /\ requests[1].jsonData.deployed = ~delete
          /\ requests[1].jsonData.environmentName = environment
          /\ requests[1].jsonData.participantName = name
    /\ (pc = "returned" /\ DeployMissing # {}) =>
          /\ requests = <<>>
          /\ retErr = <<DeployMsgs[DeployFirstMissing]>>
    /\ (pc = "returned" /\ DeployMissing = {}) => Len(requests) = 1
    /\ (pc \in {"d_broker", "d_name", "d_version", "d_env"}) => requests = <<>>

\* a run with --delete that reached the broker: the body says deployed = false
Wit_C21 ==
    /\ pc = "returned" /\ retErr = NilErr
    /\ delete /\ Len(requests) = 1
    /\ requests[1].jsonData.deployed = FALSE

(* ---------- C22 ---------- *)

\* C22: no spurious synthesis and bounded backlog - the passes started never
\* outnumber the interrupts delivered after signal.Notify, and at most one
\* delivered interrupt waits in the channel for the goroutine
Thm_C22 ==
    /\ passesStarted <= sigNotified
    /\ c <= 1

\* an interrupt waits in the full channel behind a started pass, a later one was dropped
Wit_C22 ==
    /\ handlerRegistered /\ passesStarted >= 1
    /\ c = 1 /\ sigDropped >= 1
    /\ passesStarted < sigNotified

====
